---- MODULE Spec2Model ----
(***************************************************************************)
(* The useAnalysis hook of the TrumpDump frontend (src/unnamed/part_003):  *)
(* one pull at startup, a server-sent-event subscription with exponential  *)
(* backoff reconnection, a fallback polling loop while the stream is down, *)
(* an always-on safety-net polling loop, and the reconciliation of pull    *)
(* and push updates into the state the hook returns.                       *)
(*                                                                         *)
(* Every handler that the event loop runs to completion is one action:     *)
(* a fetch response, a timer tick, a stream event, the effect cleanup.     *)
(* A fetchLatest call is suspended at its awaits; each in-flight call is   *)
(* an element of the bag `inflight` and records where it is suspended.     *)
(***************************************************************************)
EXTENDS Integers, Bags

\* ---------------------------------------------------------------- bounds
MaxId == 2          \* analysis ids are 1..MaxId
MaxTime == 2        \* readings of the clock (new Date()) are 1..MaxTime
MaxAttempts == 7    \* transport errors are modelled while the counter is below this
MaxInFlight == 1    \* fetches in flight at once
MaxPolls == 2       \* fetches in flight at once in PollSpec

\* ------------------------------------------------------ program constants
POLL_INTERVAL == 30000
SAFETY_POLL_INTERVAL == 60000
MAX_RECONNECT_DELAY == 30000
INITIAL_RECONNECT_DELAY == 1000

VARIABLES
    analysis,               \* useState: the primary record, or NoRecord for null
    lastImpactful,          \* useState: the secondary record, or NoRecord for null
    loading,                \* useState
    error,                  \* useState: a message, or NoError for null
    isLive,                 \* useState
    lastUpdated,            \* useState: a clock reading, or 0 for null
    eventSourceRef,         \* TRUE when the ref holds an open EventSource
    pollIntervalRef,        \* TRUE when the ref holds the fallback interval
    fallbackIntervals,      \* setInterval timers of the fallback loop not yet cleared
    safetyPollIntervalRef,  \* TRUE when the ref holds the safety-net interval
    reconnectAttemptsRef,   \* the attempt counter
    reconnectTimeoutRef,    \* the delay (ms) of the pending reconnect timer, 0 for null
    mounted,                \* the effect's `mounted` flag
    inflight,               \* bag of suspended fetches
    catalog,                \* the backend's records: ticker count of each id
    streamUrlOk,            \* whether new EventSource(url) succeeds in this session
    openTransports,         \* EventSource objects created and not yet closed
    pendingReconnects       \* reconnect setTimeout timers neither fired nor cleared

vars == <<analysis, lastImpactful, loading, error, isLive, lastUpdated,
          eventSourceRef, openTransports, pollIntervalRef, fallbackIntervals, safetyPollIntervalRef,
          reconnectAttemptsRef, reconnectTimeoutRef, pendingReconnects, mounted, inflight,
          catalog, streamUrlOk>>

\* ------------------------------------------------------------------ data
Ids == 1..MaxId
NoRecord == [id |-> 0, tickers |-> 0]
NoError == "null"

\* tickers.length, of which the hook reads only whether it is 0: 0 for an
\* empty (or missing) list, 1 for a list with entries.
TickerCounts == {0, 1}

\* LatestAnalysis, reduced to what the hook reads: id and tickers.length.
LatestAnalysis(id) == [id |-> id, tickers |-> catalog[id]]

\* The records GET /latest-with-tickers can answer with.
WithTickers == {id \in Ids : catalog[id] > 0}

\* Non-success outcomes of a fetch: a non-404 error status, a transport
\* failure (fetch rejects), a body that response.json() cannot parse.
Failures == {"http", "network", "malformed"}

\* err.message of each failure (each is an Error instance).
Message(f) ==
    CASE f = "http" -> "HTTP 500"
      [] f = "network" -> "Failed to fetch"
      [] f = "malformed" -> "Unexpected token"

\* new Date(): the clock never runs backwards.
Now == {t \in 1..MaxTime : t >= lastUpdated}

\* A suspended fetch: who issued it, where it is suspended ("latest": at
\* fetch(/latest); "impactful": at fetchLatestWithTickers()), and the id
\* of the record it applied before suspending there (data.id).
\* by: "init" (init awaits the call), "fallback" and "safety" (the interval
\* callbacks, which drop the result: "poll" once the response has arrived,
\* the two being the same from there on), "push" (the 'analysis' listener).
Fetch(by, stage, id) == [by |-> by, stage |-> stage, id |-> id]
Caller(f) == IF f.by \in {"fallback", "safety"} THEN "poll" ELSE f.by
InFlight(stage) == {f \in BagToSet(inflight) : f.stage = stage}
\* The bound on the fetches in flight.
Room == BagCardinality(inflight) < MaxInFlight
Issue(f) == inflight (+) SetToBag({f})
Finish(f) == inflight (-) SetToBag({f})
Replace(f, g) == (inflight (-) SetToBag({f})) (+) SetToBag({g})

Min(a, b) == IF a <= b THEN a ELSE b

Init ==
    /\ analysis = NoRecord
    /\ lastImpactful = NoRecord
    /\ loading = TRUE
    /\ error = NoError
    /\ isLive = FALSE
    /\ lastUpdated = 0
    /\ eventSourceRef = FALSE
    /\ pollIntervalRef = FALSE
    /\ fallbackIntervals = 0
    /\ safetyPollIntervalRef = FALSE
    /\ reconnectAttemptsRef = 0
    /\ reconnectTimeoutRef = 0
    /\ mounted = TRUE
    /\ inflight = SetToBag({Fetch("init", "latest", 0)})
    /\ catalog \in [Ids -> TickerCounts]
    /\ streamUrlOk \in BOOLEAN
    /\ openTransports = 0
    /\ pendingReconnects = 0

\* A response to GET /latest-with-tickers: "ok" with the id of the record in
\* the body, or "404", or one of the Failures.
Response(status, id) == [status |-> status, id |-> id]
SecondaryResponses ==
    {Response(s, 0) : s \in {"404"} \cup Failures} \cup {Response("ok", i) : i \in WithTickers}

\* ------------------------------------------------------------- helpers

\* fetchLatestWithTickers: the record of a success response, null otherwise.
fetchLatestWithTickers(r) ==
    IF r.status = "ok" THEN LatestAnalysis(r.id) ELSE NoRecord

\* startPolling: arms the fallback interval unless one is armed already.
startPolling(ref) == IF ref THEN ref ELSE TRUE

\* A startPolling without the `if (pollIntervalRef.current) return` guard.
startPollingIntervals_Unguarded(ref, n) == n + 1

\* The live fallback intervals after startPolling: setInterval adds one
\* unless the ref already holds one.
startPollingIntervals(ref, n) == IF ref THEN n ELSE n + 1

\* The live fallback intervals after stopPolling: clearInterval ends the one
\* the ref holds.
stopPollingIntervals(ref, n) == IF ref /\ n > 0 THEN n - 1 ELSE n

\* A stopPolling that logs and returns without clearing the interval.
stopPolling_KeepsInterval(ref) == ref

\* stopPolling: clears the fallback interval if one is armed.
stopPolling(ref) == IF ref THEN FALSE ELSE ref

\* A getReconnectDelay without the Math.min cap.
getReconnectDelay_Uncapped(attempts) == INITIAL_RECONNECT_DELAY * 2^attempts

\* getReconnectDelay with reconnectAttemptsRef.current = attempts.
getReconnectDelay(attempts) ==
    Min(MAX_RECONNECT_DELAY, INITIAL_RECONNECT_DELAY * 2^attempts)

\* The reconnect timeouts left once the one the ref holds, if any, has fired
\* or been cleared.
clearReconnect(ref, n) == IF ref # 0 /\ n > 0 THEN n - 1 ELSE n

\* The transports left open once the one the ref holds, if any, is closed.
closeTransport(ref, n) == IF ref /\ n > 0 THEN n - 1 ELSE n

\* A connectSSE whose catch only logs the failure.
connectSSE_NoFallback ==
    /\ reconnectTimeoutRef' = 0
    /\ pendingReconnects' = clearReconnect(reconnectTimeoutRef, pendingReconnects)
    /\ eventSourceRef' = streamUrlOk
    /\ openTransports' = closeTransport(eventSourceRef, openTransports)
                            + (IF streamUrlOk THEN 1 ELSE 0)
    /\ pollIntervalRef' = pollIntervalRef
    /\ fallbackIntervals' = fallbackIntervals

\* connectSSE: cancels the pending reconnect timer, closes the existing
\* transport, opens a new one; when the constructor throws, starts the
\* fallback loop instead and leaves the ref null.
connectSSE ==
    /\ reconnectTimeoutRef' = 0
    /\ pendingReconnects' = clearReconnect(reconnectTimeoutRef, pendingReconnects)
    /\ openTransports' = closeTransport(eventSourceRef, openTransports)
                            + (IF streamUrlOk THEN 1 ELSE 0)
    /\ IF streamUrlOk
       THEN /\ eventSourceRef' = TRUE
            /\ pollIntervalRef' = pollIntervalRef
            /\ fallbackIntervals' = fallbackIntervals
       ELSE /\ eventSourceRef' = FALSE
            /\ pollIntervalRef' = startPolling(pollIntervalRef)
            /\ fallbackIntervals' = startPollingIntervals(pollIntervalRef, fallbackIntervals)

\* An init that creates the safety-net interval outside its `if (mounted)`.
Resume_ArmsSafetyNetAnyway(f) ==
    IF f.by = "init"
    THEN /\ safetyPollIntervalRef' = TRUE
         /\ IF mounted
            THEN loading' = FALSE /\ connectSSE
            ELSE UNCHANGED <<loading, eventSourceRef, openTransports,
                             reconnectTimeoutRef, pendingReconnects,
                             pollIntervalRef, fallbackIntervals>>
    ELSE UNCHANGED <<loading, eventSourceRef, openTransports,
                     reconnectTimeoutRef, pendingReconnects,
                     pollIntervalRef, fallbackIntervals, safetyPollIntervalRef>>

\* An init that starts the subscription but no safety-net interval.
Resume_NoSafetyNet(f) ==
    IF f.by = "init" /\ mounted
    THEN /\ loading' = FALSE
         /\ connectSSE
         /\ UNCHANGED safetyPollIntervalRef
    ELSE UNCHANGED <<loading, eventSourceRef, openTransports, reconnectTimeoutRef, pendingReconnects,
                     pollIntervalRef, fallbackIntervals, safetyPollIntervalRef>>

\* An init that goes on after its await without looking at `mounted`.
Resume_IgnoresMounted(f) ==
    IF f.by = "init"
    THEN /\ loading' = FALSE
         /\ connectSSE
         /\ safetyPollIntervalRef' = TRUE
    ELSE UNCHANGED <<loading, eventSourceRef, openTransports, reconnectTimeoutRef, pendingReconnects,
                     pollIntervalRef, fallbackIntervals, safetyPollIntervalRef>>

\* What follows the return of fetchLatest call f: init resumes after its
\* `await fetchLatest()` (in the same task); every other caller drops the
\* result.
Resume(f) ==
    IF f.by = "init" /\ mounted
    THEN /\ loading' = FALSE
         /\ connectSSE
         /\ safetyPollIntervalRef' = TRUE
    ELSE UNCHANGED <<loading, eventSourceRef, openTransports, reconnectTimeoutRef, pendingReconnects,
                     pollIntervalRef, fallbackIntervals, safetyPollIntervalRef>>

\* A pull path without the else branch, like the push path.
PullImpactful_KeepsCurrent(impactful, id) ==
    IF impactful # NoRecord /\ impactful.id # id THEN impactful ELSE lastImpactful

\* The secondary decided by the pull path for primary id `id`.
PullImpactful(impactful, id) ==
    IF impactful # NoRecord /\ impactful.id # id THEN impactful ELSE NoRecord

\* A push path whose .then drops the record fetched.
PushImpactful_Ignored(impactful, id, current) == current

\* The secondary decided by the push path for primary id `id`.
PushImpactful(impactful, id, current) ==
    IF impactful # NoRecord /\ impactful.id # id THEN impactful ELSE current

\* ------------------------------------------------------------- actions

\* A 404 branch that also clears lastImpactful and stamps lastUpdated.
FetchLatestNotFound_ClearsAll(f) ==
    /\ f \in InFlight("latest")
    /\ analysis' = NoRecord
    /\ lastImpactful' = NoRecord
    /\ lastUpdated' = 0
    /\ error' = NoError
    /\ inflight' = Finish(f)
    /\ Resume(f)
    /\ UNCHANGED <<isLive, reconnectAttemptsRef, mounted, catalog, streamUrlOk>>

\* A fetchLatest without the 404 branch: the status falls through to the
\* !response.ok throw.
FetchLatestNotFound_AsError(f) ==
    /\ f \in InFlight("latest")
    /\ error' = "HTTP 404"
    /\ inflight' = Finish(f)
    /\ Resume(f)
    /\ UNCHANGED <<analysis, lastImpactful, lastUpdated, isLive,
                   reconnectAttemptsRef, mounted, catalog, streamUrlOk>>

\* fetchLatest, response status 404.
FetchLatestNotFound(f) ==
    /\ f \in InFlight("latest")
    /\ analysis' = NoRecord
    /\ error' = NoError
    /\ inflight' = Finish(f)
    /\ Resume(f)
    /\ UNCHANGED <<lastImpactful, lastUpdated, isLive, reconnectAttemptsRef,
                   mounted, catalog, streamUrlOk>>

\* A catch branch that also blanks the data shown.
FetchLatestFails_BlanksData(f, failure) ==
    /\ f \in InFlight("latest")
    /\ error' = Message(failure)
    /\ analysis' = NoRecord
    /\ lastImpactful' = NoRecord
    /\ inflight' = Finish(f)
    /\ Resume(f)
    /\ UNCHANGED <<lastUpdated, isLive,
                   reconnectAttemptsRef, mounted, catalog, streamUrlOk>>

\* A fetchLatest whose catch sends the request again and keeps waiting.
FetchLatestFails_Retries(f, failure) ==
    /\ f \in InFlight("latest")
    /\ error' = Message(failure)
    /\ UNCHANGED <<analysis, lastImpactful, loading, lastUpdated, isLive,
                   eventSourceRef, openTransports, reconnectTimeoutRef,
                   pendingReconnects, pollIntervalRef, fallbackIntervals,
                   safetyPollIntervalRef, reconnectAttemptsRef, mounted,
                   inflight, catalog, streamUrlOk>>

\* A fetchLatest that rethrows from its catch: init's await rejects and init
\* stops there.
FetchLatestFails_Rethrows(f, failure) ==
    /\ f \in InFlight("latest")
    /\ error' = Message(failure)
    /\ inflight' = Finish(f)
    /\ UNCHANGED <<analysis, lastImpactful, loading, lastUpdated, isLive,
                   eventSourceRef, openTransports, reconnectTimeoutRef, pendingReconnects, pollIntervalRef,
                   fallbackIntervals, safetyPollIntervalRef,
                   reconnectAttemptsRef, mounted, catalog, streamUrlOk>>

\* fetchLatest, the catch branch: a non-ok status, a rejected fetch or an
\* unparsable body.
FetchLatestFails(f, failure) ==
    /\ f \in InFlight("latest")
    /\ error' = Message(failure)
    /\ inflight' = Finish(f)
    /\ Resume(f)
    /\ UNCHANGED <<analysis, lastImpactful, lastUpdated, isLive,
                   reconnectAttemptsRef, mounted, catalog, streamUrlOk>>

\* A fetchLatest that drops a record older than the one held.
FetchLatestData_NewerOnly(f, id, now) ==
    /\ f \in InFlight("latest")
    /\ IF id < analysis.id
       THEN /\ inflight' = Finish(f)
            /\ Resume(f)
            /\ UNCHANGED <<analysis, lastImpactful, error, lastUpdated>>
       ELSE /\ analysis' = LatestAnalysis(id)
            /\ error' = NoError
            /\ lastUpdated' = now
            /\ IF analysis'.tickers = 0
               THEN /\ inflight' = Replace(f, Fetch(Caller(f), "impactful", id))
                    /\ UNCHANGED <<lastImpactful, loading, eventSourceRef, openTransports,
                                   reconnectTimeoutRef, pendingReconnects, pollIntervalRef,
                                   fallbackIntervals, safetyPollIntervalRef>>
               ELSE /\ lastImpactful' = NoRecord
                    /\ inflight' = Finish(f)
                    /\ Resume(f)
    /\ UNCHANGED <<isLive, reconnectAttemptsRef, mounted, catalog, streamUrlOk>>

\* fetchLatest, a record arrives: applied at once; with no tickers the call
\* suspends again at fetchLatestWithTickers(), otherwise it returns.
FetchLatestData(f, id, now) ==
    /\ f \in InFlight("latest")
    /\ analysis' = LatestAnalysis(id)
    /\ error' = NoError
    /\ lastUpdated' = now
    /\ IF analysis'.tickers = 0
       THEN /\ inflight' = Replace(f, Fetch(Caller(f), "impactful", id))
            /\ UNCHANGED <<lastImpactful, loading, eventSourceRef, openTransports,
                           reconnectTimeoutRef, pendingReconnects, pollIntervalRef, fallbackIntervals,
                           safetyPollIntervalRef>>
       ELSE /\ lastImpactful' = NoRecord
            /\ inflight' = Finish(f)
            /\ Resume(f)
    /\ UNCHANGED <<isLive, reconnectAttemptsRef, mounted, catalog, streamUrlOk>>

\* A fetchLatest whose catch branch also sees the failures of
\* fetchLatestWithTickers (as if that helper rethrew them).
FetchLatestImpactful_SurfacesFailure(f, r) ==
    /\ f \in InFlight("impactful")
    /\ f.by # "push"
    /\ lastImpactful' = PullImpactful(fetchLatestWithTickers(r), f.id)
    /\ error' = IF r.status \in Failures THEN Message(r.status) ELSE error
    /\ inflight' = Finish(f)
    /\ Resume(f)
    /\ UNCHANGED <<analysis, lastUpdated, isLive, reconnectAttemptsRef,
                   mounted, catalog, streamUrlOk>>

\* fetchLatest resumes after `await fetchLatestWithTickers()`.
FetchLatestImpactful(f, r) ==
    /\ f \in InFlight("impactful")
    /\ f.by # "push"
    /\ lastImpactful' = PullImpactful(fetchLatestWithTickers(r), f.id)
    /\ inflight' = Finish(f)
    /\ Resume(f)
    /\ UNCHANGED <<analysis, error, lastUpdated, isLive, reconnectAttemptsRef,
                   mounted, catalog, streamUrlOk>>

\* The pulls of one polling loop ("fallback" or "safety") still in flight.
OwnPulls(by) == CopiesIn(Fetch(by, "latest", 0), inflight)

\* An interval callback that skips the tick while the loop's previous
\* fetchLatest has not returned.
FallbackTickWithin_AfterReturn(limit) ==
    /\ fallbackIntervals > 0
    /\ OwnPulls("fallback") = 0
    /\ BagCardinality(inflight) < limit
    /\ inflight' = Issue(Fetch("fallback", "latest", 0))
    /\ UNCHANGED <<analysis, lastImpactful, loading, error, isLive, lastUpdated,
                   eventSourceRef, openTransports, pollIntervalRef, fallbackIntervals,
                   safetyPollIntervalRef, reconnectAttemptsRef,
                   reconnectTimeoutRef, pendingReconnects, mounted, catalog, streamUrlOk>>

\* The fallback interval fires (fewer than `limit` fetches being in flight):
\* fetchLatest() is called and not awaited.
FallbackTickWithin(limit) ==
    /\ fallbackIntervals > 0
    /\ BagCardinality(inflight) < limit
    /\ inflight' = Issue(Fetch("fallback", "latest", 0))
    /\ UNCHANGED <<analysis, lastImpactful, loading, error, isLive, lastUpdated,
                   eventSourceRef, openTransports, pollIntervalRef, fallbackIntervals,
                   safetyPollIntervalRef, reconnectAttemptsRef,
                   reconnectTimeoutRef, pendingReconnects, mounted, catalog, streamUrlOk>>

\* A safety-net tick that shows the loading state while it pulls.
SafetyTickWithin_ShowsLoading(limit) ==
    /\ safetyPollIntervalRef
    /\ BagCardinality(inflight) < limit
    /\ inflight' = Issue(Fetch("safety", "latest", 0))
    /\ loading' = TRUE
    /\ UNCHANGED <<analysis, lastImpactful, error, isLive, lastUpdated,
                   eventSourceRef, openTransports, pollIntervalRef, fallbackIntervals,
                   safetyPollIntervalRef, reconnectAttemptsRef,
                   reconnectTimeoutRef, pendingReconnects, mounted, catalog, streamUrlOk>>

\* The safety-net interval fires (fewer than `limit` fetches being in
\* flight): fetchLatest() is called and not awaited.
SafetyTickWithin(limit) ==
    /\ safetyPollIntervalRef
    /\ BagCardinality(inflight) < limit
    /\ inflight' = Issue(Fetch("safety", "latest", 0))
    /\ UNCHANGED <<analysis, lastImpactful, loading, error, isLive, lastUpdated,
                   eventSourceRef, openTransports, pollIntervalRef, fallbackIntervals,
                   safetyPollIntervalRef, reconnectAttemptsRef,
                   reconnectTimeoutRef, pendingReconnects, mounted, catalog, streamUrlOk>>

\* The fallback interval fires.
FallbackTick == FallbackTickWithin(MaxInFlight)

\* The safety-net interval fires.
SafetyTick == SafetyTickWithin(MaxInFlight)

\* A 'connected' listener that also clears the safety-net interval.
OnConnected_StopsSafetyNet ==
    /\ eventSourceRef
    /\ isLive' = TRUE
    /\ reconnectAttemptsRef' = 0
    /\ pollIntervalRef' = stopPolling(pollIntervalRef)
    /\ fallbackIntervals' = stopPollingIntervals(pollIntervalRef, fallbackIntervals)
    /\ safetyPollIntervalRef' = FALSE
    /\ UNCHANGED <<analysis, lastImpactful, loading, error, lastUpdated,
                   eventSourceRef, openTransports, reconnectTimeoutRef, pendingReconnects,
                   mounted, inflight, catalog, streamUrlOk>>

\* A 'connected' listener that leaves the attempt counter as it is.
OnConnected_KeepsAttempts ==
    /\ eventSourceRef
    /\ isLive' = TRUE
    /\ pollIntervalRef' = stopPolling(pollIntervalRef)
    /\ fallbackIntervals' = stopPollingIntervals(pollIntervalRef, fallbackIntervals)
    /\ UNCHANGED <<analysis, lastImpactful, loading, error, lastUpdated,
                   eventSourceRef, openTransports, safetyPollIntervalRef, reconnectAttemptsRef,
                   reconnectTimeoutRef, pendingReconnects, mounted, inflight, catalog, streamUrlOk>>

\* The 'connected' listener.
OnConnected ==
    /\ eventSourceRef
    /\ isLive' = TRUE
    /\ reconnectAttemptsRef' = 0
    /\ pollIntervalRef' = stopPolling(pollIntervalRef)
    /\ fallbackIntervals' = stopPollingIntervals(pollIntervalRef, fallbackIntervals)
    /\ UNCHANGED <<analysis, lastImpactful, loading, error, lastUpdated,
                   eventSourceRef, openTransports, safetyPollIntervalRef, reconnectTimeoutRef, pendingReconnects,
                   mounted, inflight, catalog, streamUrlOk>>

\* An 'analysis' listener without setError(null).
OnAnalysis_KeepsError(id, now) ==
    /\ eventSourceRef
    /\ analysis' = LatestAnalysis(id)
    /\ lastUpdated' = now
    /\ IF analysis'.tickers = 0
       THEN /\ Room
            /\ inflight' = Issue(Fetch("push", "impactful", id))
            /\ UNCHANGED lastImpactful
       ELSE /\ lastImpactful' = NoRecord
            /\ UNCHANGED inflight
    /\ UNCHANGED <<error, loading, isLive, eventSourceRef, openTransports,
                   pollIntervalRef, fallbackIntervals,
                   safetyPollIntervalRef, reconnectAttemptsRef,
                   reconnectTimeoutRef, pendingReconnects, mounted, catalog,
                   streamUrlOk>>

\* An 'analysis' listener that takes the arrival of data as proof that the
\* stream is live.
OnAnalysis_MarksLive(id, now) ==
    /\ eventSourceRef
    /\ analysis' = LatestAnalysis(id)
    /\ lastUpdated' = now
    /\ error' = NoError
    /\ isLive' = TRUE
    /\ IF analysis'.tickers = 0
       THEN /\ Room
            /\ inflight' = Issue(Fetch("push", "impactful", id))
            /\ UNCHANGED lastImpactful
       ELSE /\ lastImpactful' = NoRecord
            /\ UNCHANGED inflight
    /\ UNCHANGED <<loading, eventSourceRef, openTransports, pollIntervalRef, fallbackIntervals,
                   safetyPollIntervalRef, reconnectAttemptsRef,
                   reconnectTimeoutRef, pendingReconnects, mounted, catalog, streamUrlOk>>

\* An 'analysis' listener without the else branch that clears lastImpactful.
OnAnalysis_KeepsImpactful(id, now) ==
    /\ eventSourceRef
    /\ analysis' = LatestAnalysis(id)
    /\ lastUpdated' = now
    /\ error' = NoError
    /\ IF analysis'.tickers = 0
       THEN /\ Room
            /\ inflight' = Issue(Fetch("push", "impactful", id))
       ELSE UNCHANGED inflight
    /\ UNCHANGED <<lastImpactful, loading, isLive, eventSourceRef, openTransports, pollIntervalRef, fallbackIntervals,
                   safetyPollIntervalRef, reconnectAttemptsRef,
                   reconnectTimeoutRef, pendingReconnects, mounted, catalog, streamUrlOk>>

\* The 'analysis' listener, payload parsed: the record is applied; with no
\* tickers a fetchLatestWithTickers() is started and not awaited.
OnAnalysis(id, now) ==
    /\ eventSourceRef
    /\ analysis' = LatestAnalysis(id)
    /\ lastUpdated' = now
    /\ error' = NoError
    /\ IF analysis'.tickers = 0
       THEN /\ Room
            /\ inflight' = Issue(Fetch("push", "impactful", id))
            /\ UNCHANGED lastImpactful
       ELSE /\ lastImpactful' = NoRecord
            /\ UNCHANGED inflight
    /\ UNCHANGED <<loading, isLive, eventSourceRef, openTransports, pollIntervalRef, fallbackIntervals,
                   safetyPollIntervalRef, reconnectAttemptsRef,
                   reconnectTimeoutRef, pendingReconnects, mounted, catalog, streamUrlOk>>

\* An 'analysis' listener whose catch reports the parse failure through
\* setError.
OnAnalysisMalformed_SurfacesError ==
    /\ eventSourceRef
    /\ error' = Message("malformed")
    /\ UNCHANGED <<analysis, lastImpactful, loading, isLive, lastUpdated,
                   eventSourceRef, openTransports, pollIntervalRef, fallbackIntervals,
                   safetyPollIntervalRef, reconnectAttemptsRef,
                   reconnectTimeoutRef, pendingReconnects, mounted, inflight, catalog, streamUrlOk>>

\* The 'analysis' listener, JSON.parse throws: logged and dropped.
OnAnalysisMalformed ==
    /\ eventSourceRef
    /\ UNCHANGED vars

\* The .then of the fetchLatestWithTickers() started by the 'analysis' listener.
OnAnalysisImpactful(f, r) ==
    /\ f \in InFlight("impactful")
    /\ f.by = "push"
    /\ lastImpactful' = PushImpactful(fetchLatestWithTickers(r), f.id, lastImpactful)
    /\ inflight' = Finish(f)
    /\ UNCHANGED <<analysis, loading, error, isLive, lastUpdated, eventSourceRef, openTransports,
                   pollIntervalRef, fallbackIntervals, safetyPollIntervalRef, reconnectAttemptsRef,
                   reconnectTimeoutRef, pendingReconnects, mounted, catalog, streamUrlOk>>

\* An onerror without setIsLive(false).
OnError_StaysLive ==
    /\ eventSourceRef
    /\ reconnectAttemptsRef < MaxAttempts
    /\ UNCHANGED isLive
    /\ eventSourceRef' = FALSE
    /\ openTransports' = closeTransport(eventSourceRef, openTransports)
    /\ pollIntervalRef' = startPolling(pollIntervalRef)
    /\ fallbackIntervals' = startPollingIntervals(pollIntervalRef, fallbackIntervals)
    /\ reconnectTimeoutRef' = getReconnectDelay(reconnectAttemptsRef)
    /\ pendingReconnects' = pendingReconnects + 1
    /\ reconnectAttemptsRef' = reconnectAttemptsRef + 1
    /\ UNCHANGED <<analysis, lastImpactful, loading, error, lastUpdated,
                   safetyPollIntervalRef, mounted, inflight, catalog, streamUrlOk>>

\* An onerror that forgets the transport without closing it.
OnError_LeavesOpen ==
    /\ eventSourceRef
    /\ reconnectAttemptsRef < MaxAttempts
    /\ isLive' = FALSE
    /\ eventSourceRef' = FALSE
    /\ UNCHANGED openTransports
    /\ pollIntervalRef' = startPolling(pollIntervalRef)
    /\ fallbackIntervals' = startPollingIntervals(pollIntervalRef, fallbackIntervals)
    /\ reconnectTimeoutRef' = getReconnectDelay(reconnectAttemptsRef)
    /\ pendingReconnects' = pendingReconnects + 1
    /\ reconnectAttemptsRef' = reconnectAttemptsRef + 1
    /\ UNCHANGED <<analysis, lastImpactful, loading, error, lastUpdated,
                   safetyPollIntervalRef, mounted, inflight, catalog, streamUrlOk>>

\* An onerror that stops scheduling reconnects after three attempts.
OnError_GivesUp ==
    /\ eventSourceRef
    /\ reconnectAttemptsRef < MaxAttempts
    /\ isLive' = FALSE
    /\ eventSourceRef' = FALSE
    /\ openTransports' = closeTransport(eventSourceRef, openTransports)
    /\ pollIntervalRef' = startPolling(pollIntervalRef)
    /\ fallbackIntervals' = startPollingIntervals(pollIntervalRef, fallbackIntervals)
    /\ reconnectTimeoutRef' =
          IF reconnectAttemptsRef < 3 THEN getReconnectDelay(reconnectAttemptsRef) ELSE 0
    /\ pendingReconnects' = pendingReconnects + (IF reconnectAttemptsRef < 3 THEN 1 ELSE 0)
    /\ reconnectAttemptsRef' = reconnectAttemptsRef + 1
    /\ UNCHANGED <<analysis, lastImpactful, loading, error, lastUpdated,
                   safetyPollIntervalRef, mounted, inflight, catalog, streamUrlOk>>

\* An onerror that also reports the lost stream through setError.
OnError_SurfacesError ==
    /\ eventSourceRef
    /\ reconnectAttemptsRef < MaxAttempts
    /\ isLive' = FALSE
    /\ error' = "SSE connection error"
    /\ eventSourceRef' = FALSE
    /\ openTransports' = closeTransport(eventSourceRef, openTransports)
    /\ pollIntervalRef' = startPolling(pollIntervalRef)
    /\ fallbackIntervals' = startPollingIntervals(pollIntervalRef, fallbackIntervals)
    /\ reconnectTimeoutRef' = getReconnectDelay(reconnectAttemptsRef)
    /\ pendingReconnects' = pendingReconnects + 1
    /\ reconnectAttemptsRef' = reconnectAttemptsRef + 1
    /\ UNCHANGED <<analysis, lastImpactful, loading, lastUpdated,
                   safetyPollIntervalRef, mounted, inflight, catalog, streamUrlOk>>

\* eventSource.onerror.
OnError ==
    /\ eventSourceRef
    /\ reconnectAttemptsRef < MaxAttempts
    /\ isLive' = FALSE
    /\ eventSourceRef' = FALSE
    /\ openTransports' = closeTransport(eventSourceRef, openTransports)
    /\ pollIntervalRef' = startPolling(pollIntervalRef)
    /\ fallbackIntervals' = startPollingIntervals(pollIntervalRef, fallbackIntervals)
    /\ reconnectTimeoutRef' = getReconnectDelay(reconnectAttemptsRef)
    /\ pendingReconnects' = pendingReconnects + 1
    /\ reconnectAttemptsRef' = reconnectAttemptsRef + 1
    /\ UNCHANGED <<analysis, lastImpactful, loading, error, lastUpdated,
                   safetyPollIntervalRef, mounted, inflight, catalog, streamUrlOk>>

\* The reconnect timeout fires: connectSSE().
ReconnectTimer ==
    /\ reconnectTimeoutRef # 0
    /\ connectSSE
    /\ UNCHANGED <<analysis, lastImpactful, loading, error, isLive, lastUpdated,
                   safetyPollIntervalRef, reconnectAttemptsRef, mounted,
                   inflight, catalog, streamUrlOk>>

\* The effect's cleanup on unmount.
Cleanup ==
    /\ mounted
    /\ mounted' = FALSE
    /\ eventSourceRef' = FALSE
    /\ openTransports' = closeTransport(eventSourceRef, openTransports)
    /\ reconnectTimeoutRef' = 0
    /\ pendingReconnects' = clearReconnect(reconnectTimeoutRef, pendingReconnects)
    /\ pollIntervalRef' = stopPolling(pollIntervalRef)
    /\ fallbackIntervals' = stopPollingIntervals(pollIntervalRef, fallbackIntervals)
    /\ safetyPollIntervalRef' = FALSE
    /\ UNCHANGED <<analysis, lastImpactful, loading, error, isLive, lastUpdated,
                   reconnectAttemptsRef, inflight, catalog, streamUrlOk>>

Next ==
    \/ \E f \in BagToSet(inflight) : FetchLatestNotFound(f)
    \/ \E f \in BagToSet(inflight), x \in Failures : FetchLatestFails(f, x)
    \/ \E f \in BagToSet(inflight), id \in Ids, now \in Now : FetchLatestData(f, id, now)
    \/ \E f \in BagToSet(inflight), r \in SecondaryResponses : FetchLatestImpactful(f, r)
    \/ FallbackTick
    \/ SafetyTick
    \/ OnConnected
    \/ \E id \in Ids, now \in Now : OnAnalysis(id, now)
    \/ OnAnalysisMalformed
    \/ \E f \in BagToSet(inflight), r \in SecondaryResponses : OnAnalysisImpactful(f, r)
    \/ OnError
    \/ ReconnectTimer
    \/ Cleanup

Spec == Init /\ [][Next]_vars

\* ================================================================ claims

\* A transport error is handled in this step: the open transport is closed
\* and the hook stays mounted (the cleanup also closes it, and unmounts).
ErrorStep == eventSourceRef /\ ~eventSourceRef' /\ mounted'

\* C1 as stated: in every state of a started, not-torn-down controller the
\* fallback loop is armed if and only if connectivity is not Live (taken here
\* from the moment the subscription is started; the claim also covers the
\* initial pull before it).
C1_FallbackArmedIffNotLive ==
    (mounted /\ ~loading) => (pollIntervalRef <=> ~isLive)

\* C1 amended: while mounted, the fallback loop is armed exactly when the
\* initial pull has completed, connectivity is not Live, and a transport
\* error (or a failed creation of the transport) has happened since startup
\* or since the last connected acknowledgement; so it is disarmed during the
\* initial pull, in the first Connecting state, and in every Live state.
C1_FallbackArmedAfterError ==
    mounted =>
        /\ isLive => ~pollIntervalRef
        /\ pollIntervalRef <=>
              /\ ~loading
              /\ ~isLive
              /\ (reconnectAttemptsRef > 0 \/ ~eventSourceRef)

\* A reconnected transport awaits its acknowledgement with the fallback loop
\* armed, and the acknowledgement disarms it.
C1_Witness ==
    /\ mounted /\ eventSourceRef /\ ~isLive /\ pollIntervalRef
    /\ ENABLED (OnConnected /\ isLive' /\ ~pollIntervalRef')

\* C2: the safety-net loop is armed once, when init resumes after the initial
\* pull; from then on it is armed in every state before teardown, whatever the
\* connectivity does, and only the teardown disarms it.
C2_SafetyNetArmedUntilTeardown ==
    [][ /\ (~safetyPollIntervalRef /\ safetyPollIntervalRef') => (loading /\ ~loading')
        /\ ~loading => ~loading'
        /\ (safetyPollIntervalRef /\ ~safetyPollIntervalRef') => (mounted /\ ~mounted')
        /\ (mounted' /\ ~loading') => safetyPollIntervalRef'
      ]_vars

\* The safety-net loop is armed in a Live state, where it can issue a pull.
C2_Witness ==
    /\ mounted /\ isLive /\ safetyPollIntervalRef /\ ~pollIntervalRef
    /\ ENABLED (SafetyTick /\ safetyPollIntervalRef')

\* The delays of the claim, in time units, by attempt index n = 0, 1, 2, ...
BackoffSequence == <<1, 2, 4, 8, 16, 30, 30, 30, 30>>

\* C3: every transport error arms the reconnect timer with min(30, 2^n) time
\* units (1000 ms each), n being the attempt counter before the error, and
\* increments the counter by exactly one: 1, 2, 4, 8, 16, 30, 30, ...
C3_BackoffDelay ==
    [][ ErrorStep =>
          /\ reconnectTimeoutRef' = 1000 * (IF 2^reconnectAttemptsRef < 30 THEN 2^reconnectAttemptsRef ELSE 30)
          /\ reconnectTimeoutRef' = 1000 * BackoffSequence[reconnectAttemptsRef + 1]
          /\ reconnectAttemptsRef' = reconnectAttemptsRef + 1
      ]_vars

\* The seventh consecutive error has armed the capped delay a second time.
C3_Witness ==
    /\ reconnectAttemptsRef = 7
    /\ reconnectTimeoutRef = 30000
    /\ ~eventSourceRef /\ mounted

\* C4: every state that is Live has the attempt counter at 0, and a transport
\* error handled in a Live state arms the reconnect timer with the initial
\* delay.
C4_LiveResetsBackoff ==
    [][ /\ (isLive' /\ ~isLive) => reconnectAttemptsRef' = 0
        /\ isLive' => reconnectAttemptsRef' = 0
        /\ (isLive /\ ErrorStep) => (reconnectTimeoutRef' = 1000 /\ reconnectAttemptsRef' = 1)
      ]_vars

\* After several errors the acknowledgement arrives and resets the counter.
C4_Witness ==
    /\ mounted /\ eventSourceRef /\ ~isLive /\ reconnectAttemptsRef >= 3
    /\ ENABLED (OnConnected /\ isLive' /\ reconnectAttemptsRef' = 0)

Present(record) == record # NoRecord

\* This step applies the record with this id as the primary, by pull or by push.
ApplyStep(id) ==
    \/ \E f \in BagToSet(inflight), now \in Now : FetchLatestData(f, id, now)
    \/ \E now \in Now : OnAnalysis(id, now)

\* C5 as stated: whenever primary and secondary are both present, their ids
\* differ.
C5_SecondaryDiffersFromPrimary ==
    (Present(analysis) /\ Present(lastImpactful)) => analysis.id # lastImpactful.id

\* C6 as stated: secondary is present only if primary is present and carries
\* zero ticker entries.
C6_SecondaryOnlyWithTickerlessPrimary ==
    Present(lastImpactful) => (Present(analysis) /\ analysis.tickers = 0)

\* C7: a step that replaces a primary with zero ticker entries by a primary
\* with one or more leaves secondary absent and starts no fetch.
C7_TickersClearSecondary ==
    [][ (/\ Present(analysis) /\ analysis.tickers = 0
         /\ Present(analysis') /\ analysis'.tickers > 0)
        => (lastImpactful' = NoRecord /\ inflight' \sqsubseteq inflight)
      ]_vars

\* A tickerless primary with a secondary shown is replaced, by push, by a
\* primary with tickers.
C7_Witness ==
    /\ Present(analysis) /\ analysis.tickers = 0 /\ Present(lastImpactful)
    /\ ENABLED (/\ \E id \in Ids, now \in Now : OnAnalysis(id, now)
                /\ analysis'.tickers > 0
                /\ lastImpactful' = NoRecord)

\* C8 as stated: applying again the record that is the primary, with no error
\* shown, leaves primary, secondary, lastError and connectivity as they were.
C8_ReapplyLeavesViewUnchanged ==
    [][ \A id \in Ids :
          (analysis = LatestAnalysis(id) /\ error = NoError /\ ApplyStep(id))
          => /\ analysis' = analysis
             /\ lastImpactful' = lastImpactful
             /\ error' = error
             /\ isLive' = isLive
      ]_vars

\* C9: a failed primary pull sets lastError and leaves primary, secondary and
\* lastUpdated as they were; and no step that raises or changes the error
\* touches them.
C9_FailureKeepsData ==
    [][ /\ \A f \in BagToSet(inflight), x \in Failures :
              FetchLatestFails(f, x)
              => /\ error' # NoError
                 /\ UNCHANGED <<analysis, lastImpactful, lastUpdated>>
        /\ (error' # NoError /\ error' # error)
              => UNCHANGED <<analysis, lastImpactful, lastUpdated>>
      ]_vars

\* A pull fails while a primary and a secondary are shown without error.
C9_Witness ==
    /\ Present(analysis) /\ Present(lastImpactful) /\ lastUpdated > 0
    /\ error = NoError
    /\ ENABLED (/\ \E f \in BagToSet(inflight), x \in Failures : FetchLatestFails(f, x)
                /\ error' # NoError
                /\ UNCHANGED <<analysis, lastImpactful, lastUpdated>>)

\* C10: a primary pull answered 404 leaves primary absent and lastError
\* absent; when it is the initial pull of a mounted hook, init goes on to
\* connect the subscription (the transport is open unless its creation fails,
\* and then the fallback loop is armed).
C10_NotFoundIsAbsent ==
    [][ \A f \in BagToSet(inflight) :
          FetchLatestNotFound(f)
          => /\ analysis' = NoRecord
             /\ error' = NoError
             /\ (f.by = "init" /\ mounted)
                  => /\ ~loading'
                     /\ eventSourceRef' = streamUrlOk
                     /\ ~streamUrlOk => pollIntervalRef'
      ]_vars

\* Startup with the pull answered 404: no record was ever applied, nothing
\* is shown, no error is shown, and the transport is open awaiting its
\* acknowledgement with the safety-net loop armed.
C10_Witness ==
    /\ mounted /\ ~loading /\ inflight = EmptyBag
    /\ analysis = NoRecord /\ error = NoError /\ lastUpdated = 0
    /\ eventSourceRef /\ ~isLive /\ reconnectAttemptsRef = 0
    /\ safetyPollIntervalRef /\ ~pollIntervalRef

\* ------------------------------------------------------------------ C11
\* The outcomes of fetchLatestWithTickers other than a record.
SecondaryFailures == {r \in SecondaryResponses : r.status # "ok"}

\* C11 No outcome of the secondary fetch (404, another non-success status, a
\* transport failure, a malformed body) sets or changes the error shown:
\* every step that completes a secondary fetch leaves `error` as it was, and
\* each of these outcomes reaches the caller as null, so the pull path shows
\* no secondary and the push path keeps the one shown.
C11_SecondaryFailuresSwallowed ==
    [][ /\ \A r \in SecondaryFailures : fetchLatestWithTickers(r) = NoRecord
        /\ \A f \in InFlight("impactful") :
              /\ inflight' = Finish(f) => error' = error
              /\ \A r \in SecondaryFailures :
                    /\ FetchLatestImpactful(f, r) =>
                          (error' = error /\ lastImpactful' = NoRecord)
                    /\ OnAnalysisImpactful(f, r) =>
                          (error' = error /\ lastImpactful' = lastImpactful) ]_vars

\* A secondary fetch started by a pull is about to fail on the network.
C11_Witness ==
    /\ Present(analysis)
    /\ \E f \in InFlight("impactful") :
          /\ f.by # "push"
          /\ ENABLED (/\ FetchLatestImpactful(f, Response("network", 0))
                      /\ error' = error
                      /\ lastImpactful' = NoRecord)

\* ------------------------------------------------------------------ C12
\* The state the hook returns that a fetch can write.
view == <<analysis, lastImpactful, error, lastUpdated>>

\* C12 After the effect's cleanup has run, the completion of a fetch that was
\* in flight at that moment (a pull, or a secondary fetch started by a pull or
\* by a push) does not write the view: analysis, lastImpactful, error and
\* lastUpdated keep the values they had at cleanup.
C12_NoWriteAfterTeardown ==
    [][ ~mounted => UNCHANGED view ]_vars

\* ------------------------------------------------------------------ C13
\* No transport is open and no timer is armed.
Quiet ==
    /\ ~eventSourceRef
    /\ reconnectTimeoutRef = 0
    /\ ~pollIntervalRef
    /\ fallbackIntervals = 0
    /\ ~safetyPollIntervalRef
    /\ openTransports = 0
    /\ pendingReconnects = 0

\* The pulls (calls suspended at GET /latest) in flight.
Pulls(bag) == {f \in BagToSet(bag) : f.stage = "latest"}

\* C13 The cleanup, from whatever state, closes the transport and cancels the
\* reconnect timer, the fallback interval and the safety-net interval; from
\* then on the transport stays closed and every timer stays cancelled, also
\* when the startup pull returns afterwards, and no new pull is issued.
C13_TeardownStopsEverything ==
    [][ /\ (mounted /\ ~mounted') => Quiet'
        /\ ~mounted =>
              /\ ~mounted'
              /\ Quiet'
              /\ \A f \in Pulls(inflight') :
                    CopiesIn(f, inflight') <= CopiesIn(f, inflight) ]_vars

\* Cleanup with a reconnect pending, both intervals armed and a pull in flight.
C13_Witness ==
    /\ mounted
    /\ reconnectTimeoutRef # 0
    /\ pollIntervalRef
    /\ safetyPollIntervalRef
    /\ Pulls(inflight) # {}
    /\ ENABLED (Cleanup /\ Quiet' /\ Pulls(inflight') # {})

\* ------------------------------------------------------------------ C14
\* Some fetch in flight returns.
FetchReturns ==
    \E f \in BagToSet(inflight) :
        \/ FetchLatestNotFound(f)
        \/ \E x \in Failures : FetchLatestFails(f, x)
        \/ \E id \in Ids, now \in Now : FetchLatestData(f, id, now)
        \/ \E r \in SecondaryResponses :
              FetchLatestImpactful(f, r) \/ OnAnalysisImpactful(f, r)

\* The program under a fair scheduler: an armed safety-net interval fires,
\* and a fetch in flight returns.
FairSpec == Spec /\ WF_vars(SafetyTick) /\ WF_vars(FetchReturns)

\* A step of a run in which the backend's latest record is R and pulls
\* succeed: no pull answers 404 or fails, and no pull or event carries a
\* record other than R.
StableAt(R) ==
    /\ \A f \in BagToSet(inflight) :
          /\ ~FetchLatestNotFound(f)
          /\ \A x \in Failures : ~FetchLatestFails(f, x)
    /\ \A id \in Ids \ {R} : ~ApplyStep(id)

\* C14 For a hook that is never cleaned up: if from some point on the backend's
\* latest record is R and pulls succeed, then, whatever the stream does, the
\* primary eventually has R's id and keeps it.
C14_EventuallyConsistent ==
    \A R \in Ids :
        ([]mounted /\ <>[][StableAt(R)]_vars) => <>[](analysis.id = R)

\* The stream is live, the view holds a record that is not the last id, and
\* a safety-net pull is about to return the last id.
C14_Witness ==
    /\ mounted /\ isLive /\ ~pollIntervalRef
    /\ Present(analysis) /\ analysis.id # MaxId
    /\ Fetch("safety", "latest", 0) \in BagToSet(inflight)
    /\ ENABLED (/\ \E now \in Now :
                      FetchLatestData(Fetch("safety", "latest", 0), MaxId, now)
                /\ analysis'.id = MaxId)

\* ------------------------------------------------------------------ C15
\* The state of the subscription.
connectivity == <<isLive, eventSourceRef, reconnectTimeoutRef, reconnectAttemptsRef>>

\* C15 The connectivity transitions (the connected acknowledgement, a
\* transport error, the reconnect timer firing and the connection attempt it
\* makes) leave analysis, lastImpactful, error and lastUpdated unchanged: once
\* startup is over, no step of a live hook changes both the subscription and
\* the data.
C15_ConnectivityLeavesDataAlone ==
    [][ /\ (OnConnected \/ OnError \/ ReconnectTimer) => UNCHANGED view
        /\ (~loading /\ mounted' /\ connectivity' # connectivity)
              => UNCHANGED view ]_vars

\* Three transport errors in a row (delays 1 s, 2 s, 4 s) with data shown.
C15_Witness ==
    /\ mounted
    /\ Present(analysis) /\ lastUpdated > 0 /\ error = NoError
    /\ ~isLive /\ ~eventSourceRef
    /\ reconnectAttemptsRef = 3
    /\ reconnectTimeoutRef = getReconnectDelay(2)
    /\ ENABLED (ReconnectTimer /\ UNCHANGED view)

\* ------------------------------------------------------------------ C16
\* C16 From a transport error until the next connected acknowledgement (or the
\* cleanup) the fallback loop stays armed: an error arms it or finds it armed,
\* no step that leaves the stream not live disarms it, and further errors,
\* reconnect timers and connection attempts never create a second interval.
C16_FallbackArmedThroughOutage ==
    [][ /\ ErrorStep => pollIntervalRef'
        /\ (pollIntervalRef /\ mounted' /\ ~isLive') => pollIntervalRef'
        /\ fallbackIntervals' = IF pollIntervalRef' THEN 1 ELSE 0 ]_vars

\* A second connection attempt of an outage is about to fail as well.
C16_Witness ==
    /\ mounted /\ eventSourceRef /\ ~isLive
    /\ reconnectAttemptsRef >= 2
    /\ pollIntervalRef /\ fallbackIntervals = 1
    /\ ENABLED (OnError /\ pollIntervalRef' /\ fallbackIntervals' = 1)

\* ------------------------------------------------------------------ C17
\* The timers of the two polling loops.
timers == <<pollIntervalRef, fallbackIntervals, safetyPollIntervalRef>>

\* C17 An 'analysis' event whose payload cannot be parsed is dropped: it leaves
\* the view, the connectivity state with the attempt counter and the reconnect
\* timer, and the polling timers unchanged, and starts no fetch.
C17_MalformedEventDropped ==
    [][ OnAnalysisMalformed =>
          UNCHANGED <<view, connectivity, timers, inflight, loading>> ]_vars

\* A live stream with data and an error shown can deliver a malformed event.
C17_Witness ==
    /\ mounted /\ isLive /\ eventSourceRef
    /\ Present(analysis) /\ error # NoError
    /\ ENABLED (OnAnalysisMalformed /\ UNCHANGED <<view, connectivity, timers, inflight>>)

\* ------------------------------------------------------------------ C18
\* C18 Updates are applied in arrival order with no comparison of ids: a pull
\* response or an event carrying a record makes that record the primary
\* whatever id the primary had, and the primary changes in no other way than
\* by such an update or by a pull answered 404.
C18_LastArrivalWins ==
    [][ /\ \A id \in Ids :
              ApplyStep(id) => (analysis' = LatestAnalysis(id) /\ lastUpdated' >= lastUpdated)
        /\ analysis' # analysis =>
              \/ \E id \in Ids : ApplyStep(id)
              \/ \E f \in Pulls(inflight) : FetchLatestNotFound(f) ]_vars

\* The primary has the largest id, the stream is open, and a pull still in
\* flight is about to return the smallest id.
C18_Witness ==
    /\ mounted /\ eventSourceRef
    /\ analysis.id = MaxId
    /\ \E f \in Pulls(inflight) :
          ENABLED (/\ \E now \in Now : FetchLatestData(f, 1, now)
                   /\ analysis'.id = 1)

\* ------------------------------------------------------------------ C19
\* The polling loops on their own: a session in which new EventSource(url)
\* throws, so that startup arms the fallback loop and the safety net and no
\* stream event ever arrives, with up to MaxPolls fetches in flight.
PollInit == Init /\ ~streamUrlOk
PollFallbackTick == FallbackTickWithin(MaxPolls)
PollSafetyTick == SafetyTickWithin(MaxPolls)
PollNext ==
    \/ \E f \in BagToSet(inflight) : FetchLatestNotFound(f)
    \/ \E f \in BagToSet(inflight), x \in Failures : FetchLatestFails(f, x)
    \/ \E f \in BagToSet(inflight), id \in Ids, now \in Now : FetchLatestData(f, id, now)
    \/ \E f \in BagToSet(inflight), r \in SecondaryResponses : FetchLatestImpactful(f, r)
    \/ PollFallbackTick
    \/ PollSafetyTick
    \/ Cleanup
PollSpec == PollInit /\ [][PollNext]_vars

\* C19 (as claimed) A polling loop does not issue its next pull while the pull
\* of its previous tick has not returned: each loop has at most one pull in
\* flight.
C19_OnePullPerLoop ==
    OwnPulls("fallback") <= 1 /\ OwnPulls("safety") <= 1

\* C19 (amended) A stalled pull does not delay the next tick: whenever a loop
\* is armed its tick can fire and issue a pull, also while pulls of its
\* earlier ticks are still in flight (as long as the bound on the fetches in
\* flight has room).
C19_TicksDoNotWait ==
    BagCardinality(inflight) < MaxPolls =>
        /\ fallbackIntervals > 0 =>
              ENABLED (PollFallbackTick /\ OwnPulls("fallback")' = OwnPulls("fallback") + 1)
        /\ safetyPollIntervalRef =>
              ENABLED (PollSafetyTick /\ OwnPulls("safety")' = OwnPulls("safety") + 1)

\* The safety-net pull has not returned and the next tick is due.
C19_Witness ==
    /\ mounted /\ safetyPollIntervalRef
    /\ OwnPulls("safety") = 1
    /\ ENABLED (PollSafetyTick /\ OwnPulls("safety")' = 2)

\* ------------------------------------------------------------------ C20
\* The fetchLatest call that init awaits, at either of its awaits.
InitPull == {f \in BagToSet(inflight) : f.by = "init"}

\* C20 Startup ordering, for a hook not cleaned up: while init awaits its
\* fetchLatest that call is the only fetch in flight, no transport is open
\* and no timer is armed; once it has returned, with a record, a 404 or a
\* failure, the subscription has been started (the transport is open or a
\* reconnect is pending, or the fallback loop runs in its place when the
\* transport cannot be created) and the safety net is armed.
C20_StartupOrdering ==
    mounted =>
        /\ loading <=> InitPull # {}
        /\ loading => (BagCardinality(inflight) = 1 /\ Quiet /\ ~isLive)
        /\ ~loading =>
              /\ safetyPollIntervalRef
              /\ IF streamUrlOk
                 THEN eventSourceRef \/ reconnectTimeoutRef # 0
                 ELSE pollIntervalRef

\* The startup pull failed; the transport is open and the safety net armed.
C20_Witness ==
    /\ mounted /\ ~loading /\ inflight = EmptyBag
    /\ analysis = NoRecord /\ error # NoError /\ lastUpdated = 0
    /\ eventSourceRef /\ ~isLive /\ reconnectAttemptsRef = 0
    /\ safetyPollIntervalRef /\ ~pollIntervalRef

\* ------------------------------------------------------------------ C21
\* The program with a reconnect timeout that fires once armed.
ReconnectFairSpec == Spec /\ WF_vars(ReconnectTimer)

\* C21 Every transport error of a hook not cleaned up, in Connecting or in
\* Live and whatever the attempt counter, leaves the transport closed with
\* the reconnect timeout armed; an armed timeout can fire and its firing
\* opens a new transport and disarms it; and with a timeout that does fire,
\* every error is followed by a new connection attempt (or by the cleanup).
C21_ErrorLeadsToReconnect ==
    /\ [][ ErrorStep => (reconnectTimeoutRef' # 0 /\ ~eventSourceRef' /\ ~isLive') ]_vars
    /\ [](reconnectTimeoutRef # 0 =>
            ENABLED (ReconnectTimer /\ eventSourceRef' /\ reconnectTimeoutRef' = 0))
    /\ (reconnectTimeoutRef # 0) ~> (eventSourceRef \/ ~mounted)

\* The counter stands at the most errors modelled and a reconnect is pending.
C21_Witness ==
    /\ mounted /\ ~eventSourceRef /\ ~isLive
    /\ reconnectAttemptsRef = MaxAttempts
    /\ reconnectTimeoutRef # 0
    /\ ENABLED (ReconnectTimer /\ eventSourceRef')

\* ------------------------------------------------------------------ C22
\* C22 Push and pull updates are applied as the same update: whenever a
\* secondary fetch is pending for a primary without tickers, whatever it
\* answers (a record with another id, the primary's own record, 404 or a
\* failure), the secondary the pull path sets from the view held equals the
\* secondary the push path sets from it.
C22_PushAndPullAgree ==
    \A f \in InFlight("impactful"), r \in SecondaryResponses :
        PullImpactful(fetchLatestWithTickers(r), f.id)
            = PushImpactful(fetchLatestWithTickers(r), f.id, lastImpactful)

\* ------------------------------------------------------------------ C23
\* C23 When a secondary fetch completes, its result is reconciled against the
\* primary held at that moment: the step sets a secondary only if its id
\* differs from the id of the primary held, and leaves no secondary if the
\* primary held carries tickers, also when the primary was replaced while the
\* fetch was in flight.
C23_ReconciledAtCompletion ==
    [][ \A f \in InFlight("impactful") :
          inflight' = Finish(f) =>
              /\ (Present(lastImpactful') /\ lastImpactful' # lastImpactful)
                    => lastImpactful'.id # analysis.id
              /\ (Present(analysis) /\ analysis.tickers > 0)
                    => lastImpactful' = NoRecord ]_vars

\* ------------------------------------------------------------------ C24
\* The number of fetchLatestWithTickers calls in flight.
SecondaryFetches(bag) ==
    BagCardinality([f \in {g \in BagToSet(bag) : g.stage = "impactful"} |-> bag[f]])

\* A secondary fetch returns record i.
SecondaryReturns(f, i) ==
    \/ FetchLatestImpactful(f, Response("ok", i))
    \/ OnAnalysisImpactful(f, Response("ok", i))

\* C24 Secondary-refresh rule: applying a primary without tickers, by pull or
\* by push, starts exactly one secondary fetch, and when that fetch returns a
\* record whose id differs from that primary's id the secondary becomes that
\* record; applying a primary with tickers, a 404 and a failed pull start
\* none.
C24_SecondaryRefreshRule ==
    [][ /\ \A id \in Ids :
              ApplyStep(id) =>
                  SecondaryFetches(inflight') =
                      SecondaryFetches(inflight) + (IF catalog[id] = 0 THEN 1 ELSE 0)
        /\ \A f \in Pulls(inflight) :
              (FetchLatestNotFound(f) \/ \E x \in Failures : FetchLatestFails(f, x))
                  => SecondaryFetches(inflight') = SecondaryFetches(inflight)
        /\ \A f \in InFlight("impactful"), i \in WithTickers :
              (SecondaryReturns(f, i) /\ i # f.id)
                  => lastImpactful' = LatestAnalysis(i) ]_vars

\* An event delivered the last id without tickers and no secondary is
\* shown; the secondary fetch is about to return the first id.
C24_Witness ==
    /\ analysis = LatestAnalysis(MaxId) /\ analysis.tickers = 0
    /\ lastImpactful = NoRecord
    /\ \E f \in InFlight("impactful") :
          /\ f.by = "push" /\ f.id = MaxId /\ 1 \in WithTickers
          /\ ENABLED (OnAnalysisImpactful(f, Response("ok", 1)) /\ lastImpactful'.id = 1)

\* ------------------------------------------------------------------ C25
\* C25 isLive becomes true only in the 'connected' listener: a step that opens
\* a transport, the reconnect timeout firing and an 'analysis' event received
\* while connecting never set it, and an 'analysis' event changes neither
\* isLive, the transport, the attempt counter, the reconnect timeout nor the
\* polling timers.
C25_LiveOnlyOnConnected ==
    [][ /\ (~isLive /\ isLive') => OnConnected
        /\ (~eventSourceRef /\ eventSourceRef') => ~isLive'
        /\ ReconnectTimer => ~isLive'
        /\ (\E id \in Ids, now \in Now : OnAnalysis(id, now))
              => UNCHANGED <<connectivity, timers>> ]_vars

\* The transport is open and not yet acknowledged, after an earlier error,
\* and an 'analysis' event arrives.
C25_Witness ==
    /\ mounted /\ eventSourceRef /\ ~isLive
    /\ reconnectAttemptsRef > 0 /\ pollIntervalRef
    /\ ENABLED (/\ \E id \in Ids, now \in Now : OnAnalysis(id, now)
                /\ ~isLive' /\ UNCHANGED <<connectivity, timers>>)

\* ------------------------------------------------------------------ C26
\* init has started the subscription, the hook is not cleaned up and the
\* stream is not live.
StartedNotLive == mounted /\ ~loading /\ ~isLive

\* C26 (as claimed) Whenever the subscription has been started, the hook is
\* not cleaned up and the stream is not live, a transport is open awaiting
\* its acknowledgement or a reconnect timeout is pending.
C26_AlwaysAnotherAttempt ==
    StartedNotLive => (eventSourceRef \/ reconnectTimeoutRef # 0)

\* C26 (amended) The same holds when the transport can be created; when
\* creating it throws, no transport is open and no reconnect timeout is
\* pending, and the fallback loop is armed in their place.
C26_AnotherAttemptOrFallback ==
    StartedNotLive =>
        IF streamUrlOk
        THEN eventSourceRef \/ reconnectTimeoutRef # 0
        ELSE ~eventSourceRef /\ reconnectTimeoutRef = 0 /\ pollIntervalRef

\* The transport could not be created: the hook polls, has pulled a record
\* since, and nothing will try to connect again.
C26_Witness ==
    /\ StartedNotLive /\ ~streamUrlOk
    /\ ~eventSourceRef /\ reconnectTimeoutRef = 0 /\ reconnectAttemptsRef = 0
    /\ pollIntervalRef /\ safetyPollIntervalRef
    /\ Present(analysis)
    /\ ~ENABLED ReconnectTimer

\* ------------------------------------------------------------------ C27
\* C27 In every reachable state at most one transport is open, namely the one
\* the ref holds, at most one reconnect timeout is pending, namely the one
\* its ref holds, and never both: a transport is closed by its own error
\* handler before the timeout is set, and the timeout is gone before
\* connectSSE opens the next transport.
C27_OneTransportOrOneTimer ==
    /\ openTransports = (IF eventSourceRef THEN 1 ELSE 0)
    /\ pendingReconnects = (IF reconnectTimeoutRef # 0 THEN 1 ELSE 0)
    /\ ~(eventSourceRef /\ reconnectTimeoutRef # 0)

\* A transport opened by a reconnect, after two errors, is about to fail too.
C27_Witness ==
    /\ mounted /\ eventSourceRef /\ openTransports = 1
    /\ reconnectAttemptsRef = 2 /\ pendingReconnects = 0
    /\ ENABLED (OnError /\ openTransports' = 0 /\ pendingReconnects' = 1)

\* ------------------------------------------------------------------ C28
\* A pull fails.
PullFails == \E f \in Pulls(inflight), x \in Failures : FetchLatestFails(f, x)

\* A pull succeeds (a record or a 404) or an event carrying a record arrives.
PrimaryUpdated ==
    \/ \E id \in Ids : ApplyStep(id)
    \/ \E f \in Pulls(inflight) : FetchLatestNotFound(f)

\* C28 The error is present exactly when the last primary update to complete
\* was a failed pull: a failed pull sets it, every successful pull (a record
\* or a 404) and every parsed 'analysis' event clears it, and no other step
\* changes it.
C28_ErrorIffLastPullFailed ==
    [][ /\ PullFails => error' # NoError
        /\ PrimaryUpdated => error' = NoError
        /\ error' # error => (PullFails \/ PrimaryUpdated) ]_vars

\* An error and a record are shown and an 'analysis' event is about to
\* clear the error.
C28_Witness ==
    /\ mounted /\ eventSourceRef
    /\ error # NoError /\ Present(analysis)
    /\ ENABLED (/\ \E id \in Ids, now \in Now : OnAnalysis(id, now)
                /\ error' = NoError)

\* ------------------------------------------------------------------ C29
\* Bag `after` holds a pull that bag `before` does not.
NewPull(before, after) ==
    \E f \in Pulls(after) : CopiesIn(f, after) > CopiesIn(f, before)

\* C29 No retry: a failed pull and a failed secondary fetch end their call
\* and start no request; a pull is only ever started by a tick of one of the
\* two intervals, and a secondary fetch by the application of a record.
C29_NoRetry ==
    [][ /\ \A f \in Pulls(inflight), x \in Failures :
              FetchLatestFails(f, x) => inflight' = Finish(f)
        /\ \A f \in InFlight("impactful"), r \in SecondaryFailures :
              (FetchLatestImpactful(f, r) \/ OnAnalysisImpactful(f, r))
                  => inflight' = Finish(f)
        /\ NewPull(inflight, inflight') => (FallbackTick \/ SafetyTick)
        /\ SecondaryFetches(inflight') > SecondaryFetches(inflight)
              => \E id \in Ids : ApplyStep(id) ]_vars

\* A pull of the fallback loop is about to fail with nothing else in flight.
C29_Witness ==
    /\ mounted /\ pollIntervalRef
    /\ inflight = SetToBag({Fetch("fallback", "latest", 0)})
    /\ ENABLED (/\ FetchLatestFails(Fetch("fallback", "latest", 0), "network")
                /\ inflight' = EmptyBag)

\* ------------------------------------------------------------------ C30
\* C30 Before the cleanup, whenever isLive is true the attempt counter is 0,
\* a transport is open, no reconnect timeout is pending and the fallback
\* loop is disarmed.
C30_LiveMeansConnected ==
    (mounted /\ isLive) =>
        /\ reconnectAttemptsRef = 0
        /\ eventSourceRef
        /\ reconnectTimeoutRef = 0
        /\ ~pollIntervalRef

\* A live stream with a pull of the safety net in flight is about to lose
\* its transport.
C30_Witness ==
    /\ mounted /\ isLive /\ eventSourceRef
    /\ OwnPulls("safety") = 1
    /\ ENABLED (OnError /\ ~isLive' /\ reconnectAttemptsRef' = 1 /\ pollIntervalRef')

\* ------------------------------------------------------------------ C31
\* C31 When the cleanup runs while init still awaits its fetchLatest, the
\* subscription is never opened and the safety net never armed, whatever the
\* pull returns afterwards: with the hook cleaned up and loading still true,
\* no transport is open, no timer is armed, the stream was never live and no
\* transport error was ever counted.
C31_TeardownDuringStartup ==
    (~mounted /\ loading) => (Quiet /\ ~isLive /\ reconnectAttemptsRef = 0)

\* The startup pull returned a record after the cleanup.
C31_Witness ==
    /\ ~mounted /\ loading
    /\ inflight = EmptyBag
    /\ Present(analysis) /\ analysis.tickers > 0
    /\ Quiet

\* ------------------------------------------------------------------ C32
\* C32 A pull answered 404 changes, of the view, only the primary and the
\* error: from no reachable state does such a step change lastImpactful or
\* lastUpdated or start a secondary fetch.
C32_NotFoundKeepsSecondary ==
    \A f \in Pulls(inflight) :
        ~ENABLED (/\ FetchLatestNotFound(f)
                  /\ ~(/\ lastImpactful' = lastImpactful
                        /\ lastUpdated' = lastUpdated
                        /\ SecondaryFetches(inflight') = SecondaryFetches(inflight)))

\* A primary and a secondary are shown and a pull is about to answer 404.
C32_Witness ==
    /\ Present(analysis) /\ Present(lastImpactful) /\ lastUpdated > 0
    /\ \E f \in Pulls(inflight) :
          ENABLED (/\ FetchLatestNotFound(f)
                   /\ analysis' = NoRecord
                   /\ lastImpactful' = lastImpactful
                   /\ lastUpdated' = lastUpdated)

\* ------------------------------------------------------------------ C33
\* The secondary the pull path ends with for primary id `id` and response r.
SecondaryAfterPull(r, id) ==
    IF r.status = "ok" /\ r.id # id THEN LatestAnalysis(r.id) ELSE NoRecord

\* C33 On the pull path the completion of the secondary fetch started for a
\* primary P without tickers leaves as secondary the record returned if one
\* was returned with an id other than P's, and none otherwise, so a 404 or a
\* failure removes a secondary shown before; on the push path a 404 or a
\* failure leaves the secondary as it was.
C33_PullClearsPushKeeps ==
    \A f \in InFlight("impactful") :
        /\ \A r \in SecondaryResponses :
              ~ENABLED (/\ FetchLatestImpactful(f, r)
                        /\ lastImpactful' # SecondaryAfterPull(r, f.id))
        /\ \A r \in SecondaryFailures :
              ~ENABLED (/\ OnAnalysisImpactful(f, r)
                        /\ lastImpactful' # lastImpactful)

\* A secondary is shown and the secondary fetch of a pull is about to be
\* answered 404.
C33_Witness ==
    /\ Present(lastImpactful)
    /\ \E f \in InFlight("impactful") :
          /\ f.by # "push"
          /\ ENABLED (/\ FetchLatestImpactful(f, Response("404", 0))
                      /\ lastImpactful' = NoRecord)

\* ------------------------------------------------------------------ C34
\* The basic variant of the hook (src/unnamed/part_002): no secondary record,
\* no safety net, no attempt counter, and a reconnect after a fixed delay by
\* a setTimeout whose handle is not kept. It uses the variables above except
\* those in basicUnused; pendingReconnects counts its reconnect timeouts.
basicUnused ==
    <<lastImpactful, safetyPollIntervalRef, reconnectAttemptsRef,
      reconnectTimeoutRef, catalog, streamUrlOk>>

\* The state after construction, in a session where new EventSource(url)
\* succeeds (the basic connectSSE has no try around it).
BasicInit == Init /\ streamUrlOk

\* connectSSE of the basic variant: closes the transport the ref holds and
\* opens a new one.
BasicConnectSSE ==
    /\ openTransports' = closeTransport(eventSourceRef, openTransports) + 1
    /\ eventSourceRef' = TRUE

\* init after `await fetchLatest()` for call f; other callers drop the result.
BasicResume(f) ==
    IF f.by = "init" /\ mounted
    THEN /\ loading' = FALSE
         /\ BasicConnectSSE
    ELSE UNCHANGED <<loading, eventSourceRef, openTransports>>

\* fetchLatest, response status 404.
BasicFetchNotFound(f) ==
    /\ f \in InFlight("latest")
    /\ analysis' = NoRecord
    /\ error' = NoError
    /\ inflight' = Finish(f)
    /\ BasicResume(f)
    /\ UNCHANGED <<lastUpdated, isLive, pollIntervalRef, fallbackIntervals,
                   pendingReconnects, mounted, basicUnused>>

\* fetchLatest, the catch branch.
BasicFetchFails(f, failure) ==
    /\ f \in InFlight("latest")
    /\ error' = Message(failure)
    /\ inflight' = Finish(f)
    /\ BasicResume(f)
    /\ UNCHANGED <<analysis, lastUpdated, isLive, pollIntervalRef,
                   fallbackIntervals, pendingReconnects, mounted, basicUnused>>

\* fetchLatest, a record arrives.
BasicFetchData(f, id, now) ==
    /\ f \in InFlight("latest")
    /\ analysis' = LatestAnalysis(id)
    /\ error' = NoError
    /\ lastUpdated' = now
    /\ inflight' = Finish(f)
    /\ BasicResume(f)
    /\ UNCHANGED <<isLive, pollIntervalRef, fallbackIntervals,
                   pendingReconnects, mounted, basicUnused>>

\* The fallback interval fires.
BasicFallbackTick ==
    /\ fallbackIntervals > 0
    /\ Room
    /\ inflight' = Issue(Fetch("fallback", "latest", 0))
    /\ UNCHANGED <<analysis, loading, error, isLive, lastUpdated,
                   eventSourceRef, openTransports, pollIntervalRef,
                   fallbackIntervals, pendingReconnects, mounted, basicUnused>>

\* The 'connected' listener.
BasicOnConnected ==
    /\ eventSourceRef
    /\ isLive' = TRUE
    /\ pollIntervalRef' = stopPolling(pollIntervalRef)
    /\ fallbackIntervals' = stopPollingIntervals(pollIntervalRef, fallbackIntervals)
    /\ UNCHANGED <<analysis, loading, error, lastUpdated, eventSourceRef,
                   openTransports, pendingReconnects, mounted, inflight,
                   basicUnused>>

\* The 'analysis' listener, payload parsed.
BasicOnAnalysis(id, now) ==
    /\ eventSourceRef
    /\ analysis' = LatestAnalysis(id)
    /\ lastUpdated' = now
    /\ error' = NoError
    /\ UNCHANGED <<loading, isLive, eventSourceRef, openTransports,
                   pollIntervalRef, fallbackIntervals, pendingReconnects,
                   mounted, inflight, basicUnused>>

\* eventSource.onerror: the reconnect timeout is set and its handle dropped.
BasicOnError ==
    /\ eventSourceRef
    /\ isLive' = FALSE
    /\ eventSourceRef' = FALSE
    /\ openTransports' = closeTransport(eventSourceRef, openTransports)
    /\ pollIntervalRef' = startPolling(pollIntervalRef)
    /\ fallbackIntervals' = startPollingIntervals(pollIntervalRef, fallbackIntervals)
    /\ pendingReconnects' = pendingReconnects + 1
    /\ UNCHANGED <<analysis, loading, error, lastUpdated, mounted, inflight,
                   basicUnused>>

\* The reconnect timeout fires: connectSSE() unless the ref holds a transport.
BasicReconnectTimer ==
    /\ pendingReconnects > 0
    /\ pendingReconnects' = pendingReconnects - 1
    /\ IF ~eventSourceRef
       THEN BasicConnectSSE
       ELSE UNCHANGED <<eventSourceRef, openTransports>>
    /\ UNCHANGED <<analysis, loading, error, isLive, lastUpdated,
                   pollIntervalRef, fallbackIntervals, mounted, inflight,
                   basicUnused>>

\* The effect's cleanup: closes the transport and stops the fallback loop.
BasicCleanup ==
    /\ mounted
    /\ mounted' = FALSE
    /\ eventSourceRef' = FALSE
    /\ openTransports' = closeTransport(eventSourceRef, openTransports)
    /\ pollIntervalRef' = stopPolling(pollIntervalRef)
    /\ fallbackIntervals' = stopPollingIntervals(pollIntervalRef, fallbackIntervals)
    /\ UNCHANGED <<analysis, loading, error, isLive, lastUpdated,
                   pendingReconnects, inflight, basicUnused>>

BasicNext ==
    \/ \E f \in BagToSet(inflight) : BasicFetchNotFound(f)
    \/ \E f \in BagToSet(inflight), x \in Failures : BasicFetchFails(f, x)
    \/ \E f \in BagToSet(inflight), id \in Ids, now \in Now : BasicFetchData(f, id, now)
    \/ BasicFallbackTick
    \/ BasicOnConnected
    \/ \E id \in Ids, now \in Now : BasicOnAnalysis(id, now)
    \/ BasicOnError
    \/ BasicReconnectTimer
    \/ BasicCleanup

BasicSpec == BasicInit /\ [][BasicNext]_vars

\* C34 In the basic variant, after the cleanup no transport is open and the
\* fallback loop is not armed, also when the cleanup ran while the reconnect
\* delay started by a transport error was pending.
C34_BasicTeardownIsFinal ==
    ~mounted =>
        /\ ~eventSourceRef /\ openTransports = 0
        /\ ~pollIntervalRef /\ fallbackIntervals = 0

\* ------------------------------------------------------------------ C35
\* C35 The loading flag is true while init's fetchLatest is in flight and
\* false once it has returned to a hook not cleaned up; no step of the hook
\* (a tick, a fetch of a polling loop returning, a stream event, an error, a
\* reconnect) sets it back to true once false, and once the cleanup has run
\* with the flag still true no step sets it to false.
C35_LoadingFlag ==
    /\ InitPull # {} => loading
    /\ (mounted /\ InitPull = {}) => ~loading
    /\ (~loading \/ ~mounted) => ~ENABLED (Next /\ loading' # loading)

\* The cleanup ran during startup, init's fetchLatest has since returned with
\* a record, and the flag is still true.
C35_Witness ==
    /\ ~mounted /\ loading /\ InitPull = {}
    /\ Present(analysis) /\ lastUpdated > 0

\* ------------------------------------------------------------------ C36
\* The page (app/page.tsx) draws what the hook returns.
\* currentHasNoTickers: a record is shown and its tickers are missing or empty.
currentHasNoTickers == Present(analysis) /\ analysis.tickers = 0

\* A page that draws the last-impactful card whenever the hook holds one.
RendersLastImpactful_WheneverHeld == Present(lastImpactful)

\* The condition under which the last-impactful section is rendered.
RendersLastImpactful == currentHasNoTickers /\ Present(lastImpactful)

\* C36 The last-impactful card is rendered only when the current record is
\* present with no tickers and a last-impactful record is held; a
\* last-impactful record held while the current record is absent or has
\* tickers is not rendered.
C36_SecondaryCardOnlyForTickerless ==
    /\ RendersLastImpactful =>
          (analysis # NoRecord /\ analysis.tickers = 0 /\ lastImpactful # NoRecord)
    /\ (lastImpactful # NoRecord /\ (analysis = NoRecord \/ analysis.tickers > 0)) =>
          ~RendersLastImpactful

\* The hook holds a last-impactful record while the current record has
\* tickers, and the card is not rendered.
C36_Witness ==
    /\ lastImpactful # NoRecord
    /\ analysis # NoRecord /\ analysis.tickers > 0
    /\ ~RendersLastImpactful

====
